---- MODULE Spec2Model ----
(***************************************************************************)
(* Model of obd-parser's stream parser (lib/parser.js).                    *)
(*                                                                         *)
(* Text is a sequence of one-character strings: the buffer "41\r>" is      *)
(* <<"4","1","\r",">">>.  A byte group is such a sequence of length 1 or 2 *)
(* and a list of byte groups is a sequence of them.                        *)
(*                                                                         *)
(* One call of _transform is modelled as the steps it runs through:        *)
(* Transform (append, test for the prompt), EmitLineBreak, EmitData (one   *)
(* per command string) and Flush.  A feed ends in "done", where the        *)
(* records of what it emitted can be read; Return hands control back to    *)
(* the stream, which is then idle until the next chunk.  End is the end of *)
(* the stream, where stream.Transform calls _flush.                        *)
(*                                                                         *)
(* The functions of the file are also called directly, on arguments drawn  *)
(* from bounded sets: pc goes from "call" to "returned".                   *)
(***************************************************************************)
EXTENDS Integers, Sequences, FiniteSets, TLC

VARIABLES
    buffer,     \* this._buffer
    pc,         \* position of the parser: "idle" between two feeds, "prompt"
                \* and "each" inside _transform, "done" once done() was called
    cmds,       \* the array _.each iterates over (extractOutputStrings(buffer))
    idx,        \* index of the next element of cmds to be visited
    signals,    \* number of 'line-break' events emitted by the current feed
    results,    \* objects emitted as 'data' events by the current feed, in order
    lookups,    \* lookups[i]: the pids.getBy calls made to build results[i]
    calls,      \* calls[i]: the convertBytes calls made to build results[i]
    doneCalls,  \* number of times the current feed called done()
    pre,        \* this._buffer at the start of the current feed
    chunk,      \* the data of the current feed
    sinceEmpty, \* every object emitted since the buffer was last empty
                \* before a feed, in order
    converter,  \* how the converters of lib/pids answer bytes they cannot
                \* convert (fixed for a run)
    ended,      \* TRUE once the stream has ended
    erred,      \* TRUE once an earlier feed has emitted a result with an error
    fn,         \* the function a direct call applies ("none" for the stream)
    arg,        \* the argument of the direct call
    out         \* what the direct call returned

vars == <<buffer, pc, cmds, idx, signals, results, lookups, calls, doneCalls,
          pre, chunk, sinceEmpty, converter, ended, erred, fn, arg, out>>

\* the variables of a direct call of one of the functions
direct == <<fn, arg, out>>

----------------------------------------------------------------------------
(* Bounds of the model.                                                    *)

MaxBuf == 3        \* longest buffer retained between two feeds
MaxChunk == 2      \* longest chunk built freely from Alphabet
MaxTime == 2       \* Date.now() returns a value in 1..MaxTime
MaxPieces == 4     \* pieces per command string in the decoding inputs
MaxLines == 2      \* lines per frame given to the splitter
MaxText == 4       \* longest text given to a function called directly

----------------------------------------------------------------------------
(* Constants of lib/constants.js.                                          *)

OBD_OUTPUT_DELIMETER == ">"
MODE_01 == <<"4", "1">>

----------------------------------------------------------------------------
(* Generic helpers on text.                                                *)

Min(a, b) == IF a < b THEN a ELSE b

\* String.prototype.indexOf for a one-character needle, 1-based; 0 if absent
IndexOf(s, c) ==
    IF \E i \in 1..Len(s) : s[i] = c
    THEN CHOOSE i \in 1..Len(s) : s[i] = c /\ \A j \in 1..(i - 1) : s[j] # c
    ELSE 0

\* everything after position i
From(s, i) == SubSeq(s, i, Len(s))

\* The characters U+2028 LINE SEPARATOR and U+2029 PARAGRAPH SEPARATOR are
\* written "LS" and "PS": each is one character, one element of a text.

\* characters String.prototype.trim removes: white space and the line
\* terminators (those the model's texts can hold)
Whitespace == {" ", "\n", "\r", "\t", "LS", "PS"}

\* the line terminators of the language, which "." of a regular expression
\* does not match: LF, CR, U+2028, U+2029
LineTerminators == {"\n", "\r", "LS", "PS"}

RECURSIVE TrimLeft(_)
TrimLeft(s) ==
    IF s # <<>> /\ Head(s) \in Whitespace THEN TrimLeft(Tail(s)) ELSE s

RECURSIVE TrimRight(_)
TrimRight(s) ==
    IF s # <<>> /\ s[Len(s)] \in Whitespace
    THEN TrimRight(SubSeq(s, 1, Len(s) - 1))
    ELSE s

\* String.prototype.trim
Trim(s) == TrimRight(TrimLeft(s))

----------------------------------------------------------------------------
(* hasPrompt and extractOutputStrings.                                     *)

hasPrompt(data) == IndexOf(data, OBD_OUTPUT_DELIMETER) # 0

\* .replace(/\n/g, '')
RemoveLineFeeds(s) == SelectSeq(s, LAMBDA c : c # "\n")

\* the splitter without the replacement of the escape: a backslash followed
\* by r stays two characters
ReplaceEscapedCRNone(s) == s

\* .replace(/\\r/g, '\r'): every backslash followed by r, left to right
RECURSIVE ReplaceEscapedCR(_)
ReplaceEscapedCR(s) ==
    IF s = <<>> THEN <<>>
    ELSE IF Len(s) >= 2 /\ s[1] = "\\" /\ s[2] = "r"
         THEN <<"\r">> \o ReplaceEscapedCR(From(s, 3))
         ELSE <<s[1]>> \o ReplaceEscapedCR(Tail(s))

\* .split(/\r/g): empty segments are kept
RECURSIVE SplitCR(_)
SplitCR(s) ==
    LET i == IndexOf(s, "\r")
    IN  IF i = 0 THEN <<s>>
        ELSE <<SubSeq(s, 1, i - 1)>> \o SplitCR(From(s, i + 1))

\* c.replace(constants.OBD_OUTPUT_DELIMETER, ''): a string pattern replaces
\* its first occurrence only
RemoveFirstDelimiter(c) ==
    LET i == IndexOf(c, OBD_OUTPUT_DELIMETER)
    IN  IF i = 0 THEN c ELSE SubSeq(c, 1, i - 1) \o From(c, i + 1)

\* .replace(/ /g, '')
RemoveSpaces(c) == SelectSeq(c, LAMBDA x : x # " ")

\* the function mapped over the segments
CleanCommand(c) == Trim(RemoveSpaces(RemoveFirstDelimiter(c)))

\* Array map
RECURSIVE MapClean(_)
MapClean(ss) ==
    IF ss = <<>> THEN <<>> ELSE <<CleanCommand(Head(ss))>> \o MapClean(Tail(ss))

\* _.filter(cmds): keeps the truthy, that is the non-empty, strings
FilterNonEmpty(ss) == SelectSeq(ss, LAMBDA c : c # <<>>)

extractOutputStrings(buf) ==
    FilterNonEmpty(MapClean(SplitCR(ReplaceEscapedCR(RemoveLineFeeds(buf)))))

----------------------------------------------------------------------------
(* isHex and getByteGroupings.                                             *)

HexChars == <<"0", "1", "2", "3", "4", "5", "6", "7", "8", "9",
              "A", "B", "C", "D", "E", "F">>

HexDigits == {HexChars[i] : i \in 1..16}

\* isHex with the anchors of its pattern forgotten (/[0-9A-F]+/): a hex digit
\* anywhere is enough
isHexUnanchored(str) == \E i \in 1..Len(str) : str[i] \in HexDigits

\* isHex with a case-insensitive pattern (/^[0-9A-F]+$/i)
isHexAnyCase(str) ==
    /\ str # <<>>
    /\ \A i \in 1..Len(str) :
          str[i] \in HexDigits \cup {"a", "b", "c", "d", "e", "f"}

\* str.match(/^[0-9A-F]+$/) ? true : false
isHex(str) == str # <<>> /\ \A i \in 1..Len(str) : str[i] \in HexDigits

\* match(/.{2}/g): whole pairs only, a last single character is left out
RECURSIVE MatchPairsWhole(_)
MatchPairsWhole(s) ==
    IF Len(s) < 2 THEN <<>>
    ELSE IF s[1] \in LineTerminators THEN MatchPairsWhole(Tail(s))
    ELSE IF s[2] \in LineTerminators THEN MatchPairsWhole(From(s, 3))
    ELSE <<SubSeq(s, 1, 2)>> \o MatchPairsWhole(From(s, 3))

\* match(/.{1,2}/g): greedy runs of one or two characters other than line
\* terminators, left to right.  (null, when nothing matches, is <<>> here;
\* it does not arise for a command string, which is never empty.)
RECURSIVE MatchPairs(_)
MatchPairs(s) ==
    IF s = <<>> THEN <<>>
    ELSE IF s[1] \in LineTerminators THEN MatchPairs(Tail(s))
    ELSE IF Len(s) >= 2 /\ s[2] \notin LineTerminators
         THEN <<SubSeq(s, 1, 2)>> \o MatchPairs(From(s, 3))
         ELSE <<SubSeq(s, 1, 1)>> \o MatchPairs(Tail(s))

getByteGroupings(str) == MatchPairs(RemoveSpaces(str))

----------------------------------------------------------------------------
(* The pid registry (lib/pids) and its converters.                         *)

\* a value of the result's "value" property: null, a number num/den, or NaN
Null == [tag |-> "null", num |-> 0, den |-> 1]
Num(n, d) == [tag |-> "number", num |-> n, den |-> d]
NaN == [tag |-> "NaN", num |-> 0, den |-> 1]

\* the result's "error" property: absent, or a VError
NoError == [kind |-> "none", bytes |-> <<>>, pid |-> <<>>]
UnsupportedModeError(byteGroups) ==
    [kind |-> "UnsupportedMode", bytes |-> byteGroups, pid |-> <<>>]
NoConverterError(pid) == [kind |-> "NoConverter", bytes |-> <<>>, pid |-> pid]
ConversionFailedError(pid) ==
    [kind |-> "ConversionFailed", bytes |-> <<>>, pid |-> pid]

\* byteGroups[1] of a list with a single group
Undefined == <<>>

\* what a function that returns either a value or a VError returned
Returned(v) == [isVError |-> FALSE, value |-> v, error |-> NoError]
ReturnedError(e) == [isVError |-> TRUE, value |-> Null, error |-> e]

\* parseInt(group, 16) of a byte group of hex digits
HexDigitValue(c) == (CHOOSE i \in 1..16 : HexChars[i] = c) - 1
HexValue(group) ==
    IF Len(group) = 1 THEN HexDigitValue(group[1])
    ELSE 16 * HexDigitValue(group[1]) + HexDigitValue(group[2])

\* the descriptors: pid code, declared number of payload bytes
PidTable ==
    { [pid |-> <<"0", "C">>, name |-> "Rpm", byteCount |-> 2],
      [pid |-> <<"0", "5">>, name |-> "CoolantTemp", byteCount |-> 1] }

NoPidInfo == [pid |-> Undefined, name |-> "none", byteCount |-> 0]

\* pids.getBy('pid', code): the descriptor, or nothing
getBy(code) ==
    IF \E d \in PidTable : d.pid = code
    THEN CHOOSE d \in PidTable : d.pid = code
    ELSE NoPidInfo

\* how a converter answers payload bytes it cannot convert (fewer than it
\* declares): it either computes NaN or returns a VError
ConverterModes == {"NaN", "VError"}

\* pidInfo.convertBytes(args...): the formula of the sensor on its payload
\* bytes A, B
convertBytes(pidInfo, args, mode) ==
    IF Len(args) < pidInfo.byteCount
    THEN IF mode = "VError"
         THEN ReturnedError(ConversionFailedError(pidInfo.pid))
         ELSE Returned(NaN)
    ELSE IF pidInfo.name = "Rpm"
         THEN Returned(Num(HexValue(args[1]) * 256 + HexValue(args[2]), 4))
         ELSE Returned(Num(HexValue(args[1]) - 40, 1))

----------------------------------------------------------------------------
(* parseRealTime and parseObdString.  Each returns, next to its result     *)
(* ("out"), the registry lookups and converter calls it made.              *)

\* Array.prototype.slice(start, end) with 0-based start <= end
Slice(arr, start, end) == SubSeq(arr, start + 1, Min(end, Len(arr)))

\* byteGroups[i], 0-based
At(byteGroups, i) ==
    IF i + 1 <= Len(byteGroups) THEN byteGroups[i + 1] ELSE Undefined

\* parseRealTime returning nothing, instead of a VError, for an unknown pid
parseRealTimeSilent(byteGroups, mode) ==
    LET pidInfo == getBy(At(byteGroups, 1))
        args == Slice(byteGroups, 2, pidInfo.byteCount)
    IN  IF pidInfo # NoPidInfo
        THEN [out |-> convertBytes(pidInfo, args, mode),
              lookups |-> <<At(byteGroups, 1)>>,
              calls |-> <<[pid |-> pidInfo.pid, args |-> args]>>]
        ELSE [out |-> Returned(Null),
              lookups |-> <<At(byteGroups, 1)>>,
              calls |-> <<>>]

parseRealTime(byteGroups, mode) ==
    LET pidInfo == getBy(At(byteGroups, 1))
        args == Slice(byteGroups, 2, pidInfo.byteCount)
    IN  IF pidInfo # NoPidInfo
        THEN [out |-> convertBytes(pidInfo, args, mode),
              lookups |-> <<At(byteGroups, 1)>>,
              calls |-> <<[pid |-> pidInfo.pid, args |-> args]>>]
        ELSE [out |-> ReturnedError(NoConverterError(At(byteGroups, 1))),
              lookups |-> <<At(byteGroups, 1)>>,
              calls |-> <<>>]

\* parseObdString looking for the mode marker anywhere in the string
\* (str.indexOf(MODE_01) !== -1) instead of in the first byte group
parseObdStringModeAnywhere(str, now, mode) ==
    LET byteGroups == getByteGroupings(str)
        ret == [ts |-> now, value |-> Null, raw |-> str,
                byteGroups |-> byteGroups, error |-> NoError]
        parsed == parseRealTime(byteGroups, mode)
    IN  IF ~isHex(str)
        THEN [out |-> ret, lookups |-> <<>>, calls |-> <<>>]
        ELSE IF \E i \in 1..(Len(str) - 1) : SubSeq(str, i, i + 1) = MODE_01
        THEN IF parsed.out.isVError
             THEN [out |-> [ret EXCEPT !.error = parsed.out.error],
                   lookups |-> parsed.lookups, calls |-> parsed.calls]
             ELSE [out |-> [ret EXCEPT !.value = parsed.out.value],
                   lookups |-> parsed.lookups, calls |-> parsed.calls]
        ELSE [out |-> [ret EXCEPT !.error = UnsupportedModeError(byteGroups)],
              lookups |-> <<>>, calls |-> <<>>]

\* parseObdString without the "parsed instanceof VError" test: whatever
\* parseRealTime returns becomes the value
parseObdStringNoErrorTest(str, now, mode) ==
    LET byteGroups == getByteGroupings(str)
        ret == [ts |-> now, value |-> Null, raw |-> str,
                byteGroups |-> byteGroups, error |-> NoError]
        parsed == parseRealTime(byteGroups, mode)
    IN  IF ~isHex(str)
        THEN [out |-> ret, lookups |-> <<>>, calls |-> <<>>]
        ELSE IF At(byteGroups, 0) = MODE_01
        THEN [out |-> [ret EXCEPT !.value =
                          IF parsed.out.isVError
                          THEN [tag |-> "VError", num |-> 0, den |-> 1]
                          ELSE parsed.out.value],
              lookups |-> parsed.lookups, calls |-> parsed.calls]
        ELSE [out |-> [ret EXCEPT !.error = UnsupportedModeError(byteGroups)],
              lookups |-> <<>>, calls |-> <<>>]

parseObdString(str, now, mode) ==
    LET byteGroups == getByteGroupings(str)
        ret == [ts |-> now, value |-> Null, raw |-> str,
                byteGroups |-> byteGroups, error |-> NoError]
        parsed == parseRealTime(byteGroups, mode)
    IN  IF ~isHex(str)
        THEN [out |-> ret, lookups |-> <<>>, calls |-> <<>>]
        ELSE IF At(byteGroups, 0) = MODE_01
        THEN IF parsed.out.isVError
             THEN [out |-> [ret EXCEPT !.error = parsed.out.error],
                   lookups |-> parsed.lookups, calls |-> parsed.calls]
             ELSE [out |-> [ret EXCEPT !.value = parsed.out.value],
                   lookups |-> parsed.lookups, calls |-> parsed.calls]
        ELSE [out |-> [ret EXCEPT !.error = UnsupportedModeError(byteGroups)],
              lookups |-> <<>>, calls |-> <<>>]

----------------------------------------------------------------------------
(* Inputs.                                                                 *)

Alphabet == {"4", "1", ">", "\r", "\\", "r"}

\* all texts over S of length at most n
RECURSIVE TextsUpTo(_, _)
TextsUpTo(S, n) ==
    IF n = 0 THEN {<<>>}
    ELSE LET shorter == TextsUpTo(S, n - 1)
         IN  shorter \cup {Append(t, c) : t \in shorter, c \in S}

\* the chunks of the examples of the documentation, fed whole, and a
\* response with spaces and stray line feeds
ExampleChunks ==
    { <<" ", "4", "1", " ", "\n", "0", "C", "\r", "\n", ">">>,
      <<"0", "C", "1", "B", "5", "6", "\r", "\r", ">">>,
      <<"4", "1", "0", "C", "1", "B", "5", "6", "\r",
        "4", "1", "0", "5", "7", "E", "\r", "\r", ">">>,
      <<"N", "O", "D", "A", "T", "A", ">">>,
      <<"5", "5", "1", "2", "A", "B", "\r", "\r", ">">> }

Chunks == TextsUpTo(Alphabet, MaxChunk) \cup ExampleChunks

Times == 1..MaxTime

\* pieces the command strings of the decoding inputs are built from
Pieces ==
    { <<"4", "1">>, <<"0", "C">>, <<"0", "5">>, <<"1", "B">>, <<"5", "6">>,
      <<"5", "5">>, <<"4">>, <<"N">>, <<"a">> }

RECURSIVE PieceTexts(_)
PieceTexts(n) ==
    IF n = 0 THEN {<<>>}
    ELSE LET shorter == PieceTexts(n - 1)
         IN  shorter \cup {t \o p : t \in shorter, p \in Pieces}

\* one command string and the prompt
DecodeChunks ==
    {t \o <<OBD_OUTPUT_DELIMETER>> : t \in PieceTexts(MaxPieces)}
        \cup ExampleChunks

----------------------------------------------------------------------------
(* The stream parser.                                                      *)

\* "=" written for "+=": the chunk replaces the buffer
AccumulateOverwrite(buf, data) == data

\* the chunk normalized on arrival: its carriage returns are not kept
AccumulateStripped(buf, data) == buf \o SelectSeq(data, LAMBDA c : c # "\r")

\* this._buffer += data
Accumulate(buf, data) == buf \o data

Init ==
    /\ buffer = <<>>
    /\ pc = "idle"
    /\ cmds = <<>>
    /\ idx = 1
    /\ signals = 0
    /\ results = <<>>
    /\ lookups = <<>>
    /\ calls = <<>>
    /\ doneCalls = 0
    /\ pre = <<>>
    /\ chunk = <<>>
    /\ sinceEmpty = <<>>
    /\ converter \in ConverterModes
    /\ ended = FALSE
    /\ erred = FALSE
    /\ fn = "none"
    /\ arg = <<>>
    /\ out = <<>>

\* _transform up to the test for the prompt; without a prompt the call ends
\* here with done()
Transform(data) ==
    /\ pc = "idle"
    /\ ~ended
    /\ hasPrompt(Accumulate(buffer, data))
       \/ Len(Accumulate(buffer, data)) <= MaxBuf
    /\ buffer' = Accumulate(buffer, data)
    /\ pre' = buffer
    /\ chunk' = data
    /\ signals' = 0
    /\ results' = <<>>
    /\ lookups' = <<>>
    /\ calls' = <<>>
    /\ cmds' = <<>>
    /\ idx' = 1
    /\ sinceEmpty' = IF buffer = <<>> THEN <<>> ELSE sinceEmpty
    /\ IF hasPrompt(Accumulate(buffer, data))
       THEN pc' = "prompt" /\ doneCalls' = 0
       ELSE pc' = "done" /\ doneCalls' = 1
    /\ UNCHANGED <<converter, ended, erred, direct>>

\* the buffer reset as soon as the prompt is seen, before the results are
\* delivered
EmitLineBreakAndReset ==
    /\ pc = "prompt"
    /\ signals' = signals + 1
    /\ cmds' = extractOutputStrings(buffer)
    /\ idx' = 1
    /\ buffer' = <<>>
    /\ pc' = "each"
    /\ UNCHANGED <<results, lookups, calls, doneCalls, pre, chunk,
                   sinceEmpty, converter, ended, erred, direct>>

\* this.emit('line-break'), then extractOutputStrings(this._buffer)
EmitLineBreak ==
    /\ pc = "prompt"
    /\ signals' = signals + 1
    /\ cmds' = extractOutputStrings(buffer)
    /\ idx' = 1
    /\ pc' = "each"
    /\ UNCHANGED <<buffer, results, lookups, calls, doneCalls, pre, chunk,
                   sinceEmpty, converter, ended, erred, direct>>

\* the loop emitting only "valid hex output", as its comment has it: other
\* command strings are skipped
EmitDataHexOnly ==
    /\ pc = "each"
    /\ idx <= Len(cmds)
    /\ \E now \in Times :
          LET p == parseObdString(cmds[idx], now, converter)
          IN  IF isHex(cmds[idx])
              THEN /\ results' = Append(results, p.out)
                   /\ sinceEmpty' = Append(sinceEmpty, p.out)
                   /\ lookups' = Append(lookups, p.lookups)
                   /\ calls' = Append(calls, p.calls)
              ELSE UNCHANGED <<results, sinceEmpty, lookups, calls>>
    /\ idx' = idx + 1
    /\ UNCHANGED <<buffer, pc, cmds, signals, doneCalls, pre, chunk,
                   converter, ended, erred, direct>>

\* an error thrown instead of emitted: the first command string that
\* decodes to an error ends the loop, and the rest of the frame is skipped
EmitDataAbortOnError ==
    /\ pc = "each"
    /\ idx <= Len(cmds)
    /\ \E now \in Times :
          LET p == parseObdString(cmds[idx], now, converter)
          IN  IF p.out.error = NoError
              THEN /\ results' = Append(results, p.out)
                   /\ sinceEmpty' = Append(sinceEmpty, p.out)
                   /\ lookups' = Append(lookups, p.lookups)
                   /\ calls' = Append(calls, p.calls)
                   /\ idx' = idx + 1
              ELSE /\ UNCHANGED <<results, sinceEmpty, lookups, calls>>
                   /\ idx' = Len(cmds) + 1
    /\ UNCHANGED <<buffer, pc, cmds, signals, doneCalls, pre, chunk,
                   converter, ended, erred, direct>>

\* one iteration of _.each: this.emit('data', parseObdString(c))
EmitData ==
    /\ pc = "each"
    /\ idx <= Len(cmds)
    /\ \E now \in Times :
          LET p == parseObdString(cmds[idx], now, converter)
          IN  /\ results' = Append(results, p.out)
              /\ sinceEmpty' = Append(sinceEmpty, p.out)
              /\ lookups' = Append(lookups, p.lookups)
              /\ calls' = Append(calls, p.calls)
    /\ idx' = idx + 1
    /\ UNCHANGED <<buffer, pc, cmds, signals, doneCalls, pre, chunk,
                   converter, ended, erred, direct>>

\* a reset that drops the frame only, up to its prompt, and keeps what
\* follows it in the buffer
FlushFrameOnly ==
    /\ pc = "each"
    /\ idx > Len(cmds)
    /\ buffer' = From(buffer, IndexOf(buffer, OBD_OUTPUT_DELIMETER) + 1)
    /\ doneCalls' = doneCalls + 1
    /\ pc' = "done"
    /\ UNCHANGED <<cmds, idx, signals, results, lookups, calls, pre, chunk,
                   sinceEmpty, converter, ended, erred, direct>>

\* done() called by _flush and once more by _transform
FlushDoneTwice ==
    /\ pc = "each"
    /\ idx > Len(cmds)
    /\ buffer' = <<>>
    /\ doneCalls' = doneCalls + 2
    /\ pc' = "done"
    /\ UNCHANGED <<cmds, idx, signals, results, lookups, calls, pre, chunk,
                   sinceEmpty, converter, ended, erred, direct>>

\* this._flush(done) at the end of _transform
Flush ==
    /\ pc = "each"
    /\ idx > Len(cmds)
    /\ buffer' = <<>>
    /\ doneCalls' = doneCalls + 1
    /\ pc' = "done"
    /\ UNCHANGED <<cmds, idx, signals, results, lookups, calls, pre, chunk,
                   sinceEmpty, converter, ended, erred, direct>>

\* done() returns to the stream, which waits for the next chunk; the
\* records of the feed are dropped
Return ==
    /\ pc = "done"
    /\ pc' = "idle"
    /\ cmds' = <<>>
    /\ idx' = 1
    /\ signals' = 0
    /\ results' = <<>>
    /\ lookups' = <<>>
    /\ calls' = <<>>
    /\ doneCalls' = 0
    /\ pre' = <<>>
    /\ chunk' = <<>>
    /\ sinceEmpty' = IF buffer = <<>> THEN <<>> ELSE sinceEmpty
    /\ erred' = (erred \/ \E i \in 1..Len(results) : results[i].error # NoError)
    /\ UNCHANGED <<buffer, converter, ended, direct>>

\* an end of the stream that decodes what the buffer holds before it
\* empties it
EndDecoding ==
    /\ pc = "idle"
    /\ ~ended
    /\ pre' = buffer
    /\ results' = LET c == extractOutputStrings(buffer)
                  IN  [i \in 1..Len(c) |-> parseObdString(c[i], 1, converter).out]
    /\ buffer' = <<>>
    /\ doneCalls' = doneCalls + 1
    /\ ended' = TRUE
    /\ UNCHANGED <<pc, cmds, idx, signals, lookups, calls, chunk,
                   sinceEmpty, converter, erred, direct>>

\* end of the stream: stream.Transform calls _flush, which empties the
\* buffer and calls done(); pre records what the buffer held
End ==
    /\ pc = "idle"
    /\ ~ended
    /\ pre' = buffer
    /\ buffer' = <<>>
    /\ doneCalls' = doneCalls + 1
    /\ ended' = TRUE
    /\ UNCHANGED <<pc, cmds, idx, signals, results, lookups, calls, chunk,
                   sinceEmpty, converter, erred, direct>>

\* the stream hands the parser its next chunk
Feed == pc = "idle" /\ \E data \in Chunks : Transform(data)

\* the same, for a whole response of one command string
FeedResponse == pc = "idle" /\ \E data \in DecodeChunks : Transform(data)

Next ==
    \/ Feed
    \/ EmitLineBreak
    \/ EmitData
    \/ Flush
    \/ Return
    \/ End

Spec == Init /\ [][Next]_vars

\* the parser fed whole responses of one command string each
NextDecode ==
    \/ FeedResponse
    \/ EmitLineBreak
    \/ EmitData
    \/ Flush
    \/ Return
    \/ End

SpecDecode == Init /\ [][NextDecode]_vars

----------------------------------------------------------------------------
(* The functions called directly.                                          *)

\* the lines a frame is put together from: empty, blank, plain, with an
\* inner space, with a leading tab, ending in a backslash, starting with r
FrameLines ==
    { <<>>, <<" ">>, <<"\t">>, <<"4">>, <<"4", " ", "1">>, <<"\t", "4">>,
      <<"4", "\\">>, <<"r", "1">>, <<"\\">>, <<"r">> }

\* what separates two lines: a carriage return or its two-character escape
Separators == { <<"\r">>, <<"\\", "r">> }

\* what stands between the last line and the prompt
Trailers == { <<>>, <<"\r", "\r">> }

\* the lines joined by the separators
RECURSIVE JoinLines(_, _)
JoinLines(lines, seps) ==
    IF Len(lines) = 1 THEN lines[1]
    ELSE lines[1] \o seps[1] \o JoinLines(Tail(lines), Tail(seps))

\* the text with a line feed put in after its first lf characters, or at
\* its end if it is shorter (lf = -1: no line feed)
WithLineFeed(s, lf) ==
    IF lf < 0 THEN s
    ELSE SubSeq(s, 1, Min(lf, Len(s))) \o <<"\n">> \o From(s, Min(lf, Len(s)) + 1)

\* the frame of a splitter input
FrameOf(a) ==
    WithLineFeed(JoinLines(a.lines, a.seps) \o a.trailer
                     \o <<OBD_OUTPUT_DELIMETER>>, a.lf)

\* a is a splitter input: a frame of one to MaxLines lines
IsSplitInput(a) ==
    \E n \in 1..MaxLines :
        \E ls \in [1..n -> FrameLines], ss \in [1..(n - 1) -> Separators],
           t \in Trailers, lf \in -1..(3 * n) :
            a = [lines |-> ls, seps |-> ss, trailer |-> t, lf |-> lf]

\* any buffer content
BufferAlphabet == {"4", ">", " ", "\n", "\r", "\\", "r"}
BufferInputs == TextsUpTo(BufferAlphabet, MaxText)

\* arguments of isHex
HexTestAlphabet == {"0", "9", "A", "F", "G", "a", "\n"}
HexTestInputs == TextsUpTo(HexTestAlphabet, MaxText)

\* command strings, as the splitter leaves them: non-empty, without space,
\* line feed or carriage return, and trimmed, so that a line separator can
\* only stand inside them
CommandAlphabet == {"1", "B", "5", "6", "LS"}
CommandInputs ==
    { s \in TextsUpTo(CommandAlphabet, MaxText) \ {<<>>} :
        s[1] \notin Whitespace /\ s[Len(s)] \notin Whitespace }

InitDirect ==
    /\ buffer = <<>>
    /\ pc = "call"
    /\ cmds = <<>>
    /\ idx = 1
    /\ signals = 0
    /\ results = <<>>
    /\ lookups = <<>>
    /\ calls = <<>>
    /\ doneCalls = 0
    /\ pre = <<>>
    /\ chunk = <<>>
    /\ sinceEmpty = <<>>
    /\ converter = "NaN"
    /\ ended = FALSE
    /\ erred = FALSE
    /\ out = <<>>
    /\ \/ fn = "split" /\ IsSplitInput(arg)
       \/ fn = "extract" /\ arg \in BufferInputs
       \/ fn = "isHex" /\ arg \in HexTestInputs
       \/ fn = "group" /\ arg \in CommandInputs

stream == <<buffer, cmds, idx, signals, results, lookups, calls, doneCalls,
            pre, chunk, sinceEmpty, converter, ended, erred>>

\* extractOutputStrings(frame)
CallSplit ==
    /\ pc = "call" /\ fn = "split"
    /\ out' = extractOutputStrings(FrameOf(arg))
    /\ pc' = "returned"
    /\ UNCHANGED <<stream, fn, arg>>

\* extractOutputStrings(buffer)
CallExtract ==
    /\ pc = "call" /\ fn = "extract"
    /\ out' = extractOutputStrings(arg)
    /\ pc' = "returned"
    /\ UNCHANGED <<stream, fn, arg>>

\* isHex(str)
CallIsHex ==
    /\ pc = "call" /\ fn = "isHex"
    /\ out' = isHex(arg)
    /\ pc' = "returned"
    /\ UNCHANGED <<stream, fn, arg>>

\* getByteGroupings(str)
CallGroup ==
    /\ pc = "call" /\ fn = "group"
    /\ out' = getByteGroupings(arg)
    /\ pc' = "returned"
    /\ UNCHANGED <<stream, fn, arg>>

NextDirect == CallSplit \/ CallExtract \/ CallIsHex \/ CallGroup

SpecDirect == InitDirect /\ [][NextDirect]_vars

----------------------------------------------------------------------------
(* Vocabulary of the properties.  These definitions restate the notions    *)
(* of the documentation on their own, without the operators of the parser. *)

\* what the current feed made of the buffer: its content before the feed
\* followed by the chunk
Accumulated == pre \o chunk

\* the text holds the prompt delimiter
Delimited(s) == \E i \in 1..Len(s) : s[i] = ">"

\* number of prompt delimiters in the text
DelimiterCount(s) == Cardinality({i \in 1..Len(s) : s[i] = ">"})

\* a complete response: a text that ends with the delimiter, its only one
IsResponse(s) ==
    /\ s # <<>>
    /\ s[Len(s)] = ">"
    /\ \A i \in 1..(Len(s) - 1) : s[i] # ">"

\* every character is one of 0-9, A-F, and there is at least one
StrictHex(s) ==
    /\ s # <<>>
    /\ \A i \in 1..Len(s) :
          s[i] \in {"0", "1", "2", "3", "4", "5", "6", "7", "8", "9",
                    "A", "B", "C", "D", "E", "F"}

\* the text cut into pairs, the last of which is a single character when
\* the length is odd
PairsOf(s) ==
    [j \in 1..((Len(s) + 1) \div 2) |-> SubSeq(s, 2 * j - 1, Min(2 * j, Len(s)))]

FirstGroup(s) == SubSeq(s, 1, Min(2, Len(s)))
SecondGroup(s) == SubSeq(s, 3, Min(4, Len(s)))

Registered(pid) == \E d \in PidTable : d.pid = pid
Descriptor(pid) == CHOOSE d \in PidTable : d.pid = pid

\* the payload groups of a response, limited by the declared byte count
Payload(byteGroups, d) ==
    SubSeq(byteGroups, 3, Min(Len(byteGroups), 2 + d.byteCount))

ValueSet(r) == r.value # Null
ErrorSet(r) == r.error # NoError

\* a result without its timestamp
View(r) ==
    [raw |-> r.raw, byteGroups |-> r.byteGroups, value |-> r.value,
     error |-> r.error]

Views(rs) == [i \in 1..Len(rs) |-> View(rs[i])]
Raws(rs) == [i \in 1..Len(rs) |-> rs[i].raw]

\* what a parser with an empty buffer emits when the text is fed to it as a
\* single chunk
SingleChunkViews(s) ==
    IF Delimited(s)
    THEN LET c == extractOutputStrings(s)
         IN  [i \in 1..Len(c) |-> View(parseObdString(c[i], 1, converter).out)]
    ELSE <<>>

\* the frames of a text are its pieces up to and including each delimiter;
\* what follows the last delimiter belongs to no frame yet
FirstFrame(s) == SubSeq(s, 1, IndexOf(s, ">"))
AfterFirstFrame(s) == From(s, IndexOf(s, ">") + 1)

RECURSIVE FrameCommands(_)
FrameCommands(s) ==
    IF ~Delimited(s) THEN <<>>
    ELSE extractOutputStrings(FirstFrame(s)) \o FrameCommands(AfterFirstFrame(s))

RECURSIVE Unframed(_)
Unframed(s) == IF ~Delimited(s) THEN s ELSE Unframed(AfterFirstFrame(s))

\* the texts of the examples
Text41 == <<"4", "1">>
Text0C == <<"0", "C">>
TextRpmRest == <<"0", "C", "1", "B", "5", "6", "\r", "\r", ">">>
TextRpm == <<"4", "1", "0", "C", "1", "B", "5", "6">>
TextCoolant == <<"4", "1", "0", "5", "7", "E">>
TextTwoLines == TextRpm \o <<"\r">> \o TextCoolant \o <<"\r", "\r", ">">>
TextNoData == <<"N", "O", "D", "A", "T", "A">>
TextMode55 == <<"5", "5", "1", "2", "A", "B">>

----------------------------------------------------------------------------
(* C1.  Framing does not depend on the chunk boundaries: once the chunks  *)
(* fed since the buffer was empty add up to a complete response, the      *)
(* results emitted since then (timestamps aside) are those of feeding the *)
(* whole response as a single chunk.                                      *)
C1_ChunkBoundaryInvariant ==
    (pc = "done" /\ IsResponse(Accumulated))
        => Views(sinceEmpty) = SingleChunkViews(Accumulated)

\* a response cut inside an escaped carriage return, which yields a result
C1_Witness ==
    /\ pc = "done"
    /\ IsResponse(Accumulated)
    /\ pre # <<>>
    /\ pre[Len(pre)] = "\\"
    /\ chunk[1] = "r"
    /\ Len(sinceEmpty) >= 1
    /\ Views(sinceEmpty) = SingleChunkViews(Accumulated)

----------------------------------------------------------------------------
(* C2 as stated: after a feed that completed a frame the buffer is empty, *)
(* and after a feed that did not it is non-empty and holds its previous   *)
(* content followed by the chunk.                                         *)
C2_Original ==
    pc = "done" =>
        /\ Delimited(Accumulated) => buffer = <<>>
        /\ ~Delimited(Accumulated) => (buffer # <<>> /\ buffer = Accumulated)

(* C2, amended.  After a feed that completed a frame the buffer is empty; *)
(* after a feed that did not, the buffer is its previous content followed *)
(* by the chunk, hence non-empty unless both of them are empty.           *)
C2_BufferAfterFeed ==
    pc = "done" =>
        /\ Delimited(Accumulated) => buffer = <<>>
        /\ ~Delimited(Accumulated) =>
              /\ buffer = Accumulated
              /\ (buffer = <<>>) <=> (pre = <<>> /\ chunk = <<>>)

\* a chunk without delimiter was added to a non-empty buffer and retained
C2_Witness ==
    /\ pc = "done"
    /\ ~Delimited(Accumulated)
    /\ pre # <<>>
    /\ chunk # <<>>
    /\ buffer = pre \o chunk

----------------------------------------------------------------------------
(* C3.  The ready signal is emitted once per completed frame: a feed      *)
(* emits as many 'line-break' events as its chunk completes frames, that  *)
(* is as the accumulated buffer holds delimiters (none for a feed that    *)
(* leaves the frame incomplete).  The buffer holds no delimiter between   *)
(* two feeds, so the equality for each feed is the equality of the totals *)
(* over any sequence of feeds.                                            *)
C3_ReadyOncePerFrame ==
    pc = "done" => signals = DelimiterCount(Accumulated)

----------------------------------------------------------------------------
(* C4.  The frame decoded on completion ends at the first delimiter: the  *)
(* results of a feed are those of the frames its buffer holds, frame by   *)
(* frame, and what follows the last delimiter is neither decoded nor      *)
(* dropped, but left in the buffer.                                       *)
C4_FrameEndsAtFirstDelimiter ==
    (pc = "done" /\ Delimited(Accumulated)) =>
        /\ Raws(results) = FrameCommands(Accumulated)
        /\ buffer = Unframed(Accumulated)

----------------------------------------------------------------------------
(* C5.  For a hex command string of mode 41 and a registered pid the      *)
(* converter is called with the payload groups after mode and pid, up to  *)
(* the declared byte count, and the value is what it returns, without     *)
(* error; "41" then "0C1B56\r\r>" gives one result, raw 410C1B56, and the *)
(* Rpm converter receives 1B, 56.                                         *)
C5_ConverterGetsPayload ==
    pc = "done" =>
        /\ \A i \in 1..Len(results) :
              LET r == results[i]
              IN  (/\ StrictHex(r.raw)
                   /\ FirstGroup(r.raw) = Text41
                   /\ Registered(SecondGroup(r.raw)))
                  => LET d == Descriptor(SecondGroup(r.raw))
                         args == Payload(PairsOf(r.raw), d)
                     IN  /\ calls[i] = <<[pid |-> d.pid, args |-> args]>>
                         /\ ~convertBytes(d, args, converter).isVError
                               => /\ r.value = convertBytes(d, args, converter).value
                                  /\ r.error = NoError
        /\ (pre = Text41 /\ chunk = TextRpmRest)
              => /\ Len(results) = 1
                 /\ results[1].raw = TextRpm
                 /\ results[1].byteGroups =
                        <<Text41, Text0C, <<"1", "B">>, <<"5", "6">>>>
                 /\ calls[1] = <<[pid |-> Text0C,
                                  args |-> <<<<"1", "B">>, <<"5", "6">>>>]>>

----------------------------------------------------------------------------
(* C6.  A completed feed emits exactly one result per non-empty line of   *)
(* its frame, in the order of the lines; each carries a timestamp, the    *)
(* line as raw and the pairs of the line as byteGroups.  The frame        *)
(* "410C1B56\r41057E\r\r>" gives two results, 410C1B56 then 41057E.       *)
C6_OneResultPerLine ==
    (pc = "done" /\ Delimited(Accumulated)) =>
        LET lines == extractOutputStrings(Accumulated)
        IN  /\ Len(results) = Len(lines)
            /\ \A i \in 1..Len(results) :
                  /\ results[i].raw = lines[i]
                  /\ results[i].byteGroups = PairsOf(lines[i])
                  /\ results[i].ts \in Times
            /\ (pre = <<>> /\ chunk = TextTwoLines)
                  => Raws(results) = <<TextRpm, TextCoolant>>

\* a frame of two lines, a generic one then one that decodes to an error
C6_Witness ==
    /\ pc = "done"
    /\ Len(results) = 2
    /\ ~StrictHex(results[1].raw)
    /\ ErrorSet(results[2])
    /\ Raws(results) = extractOutputStrings(Accumulated)

----------------------------------------------------------------------------
(* C7.  A command string that is not strictly uppercase hex is a generic  *)
(* message: value null, no error, raw and byteGroups populated, and no    *)
(* lookup or converter call.  "NODATA>" gives one such result.            *)
C7_GenericMessage ==
    /\ \A i \in 1..Len(results) :
          LET r == results[i]
          IN  ~StrictHex(r.raw)
              => /\ r.value = Null
                 /\ r.error = NoError
                 /\ r.raw # <<>>
                 /\ r.byteGroups = PairsOf(r.raw)
                 /\ lookups[i] = <<>>
                 /\ calls[i] = <<>>
    /\ (pc = "done" /\ pre = <<>> /\ chunk = TextNoData \o <<">">>)
          => /\ Len(results) = 1
             /\ results[1].raw = TextNoData
             /\ results[1].value = Null
             /\ results[1].error = NoError

\* a string with a hex digit and a lowercase letter was taken as generic
C7_Witness ==
    /\ pc = "done"
    /\ Len(results) = 1
    /\ results[1].raw = <<"4", "1", "a">>
    /\ results[1].value = Null
    /\ results[1].error = NoError
    /\ lookups[1] = <<>>

----------------------------------------------------------------------------
(* C8.  A hex command string whose first byte group is not 41 (a single   *)
(* hex character included) gives an UnsupportedMode error carrying the    *)
(* byte groups, value null, and no lookup or converter call.              *)
C8_UnsupportedMode ==
    /\ \A i \in 1..Len(results) :
          LET r == results[i]
          IN  (StrictHex(r.raw) /\ FirstGroup(r.raw) # Text41)
              => /\ r.error = [kind |-> "UnsupportedMode",
                               bytes |-> PairsOf(r.raw), pid |-> <<>>]
                 /\ r.value = Null
                 /\ lookups[i] = <<>>
                 /\ calls[i] = <<>>
    /\ (pc = "done" /\ pre = <<>>
            /\ chunk = TextMode55 \o <<"\r", "\r", ">">>)
          => /\ Len(results) = 1
             /\ results[1].error.kind = "UnsupportedMode"
             /\ results[1].value = Null

\* the single hex character 4 was refused as an unsupported mode
C8_Witness ==
    /\ pc = "done"
    /\ Len(results) = 1
    /\ results[1].raw = <<"4">>
    /\ results[1].error.kind = "UnsupportedMode"
    /\ results[1].error.bytes = << <<"4">> >>

----------------------------------------------------------------------------
(* C9.  A hex command string of mode 41 whose pid group has no descriptor *)
(* ("41" alone, which has no pid group, included) gives a NoConverter     *)
(* error carrying the pid, value null, and no converter call.             *)
C9_NoConverter ==
    \A i \in 1..Len(results) :
        LET r == results[i]
        IN  (/\ StrictHex(r.raw)
             /\ FirstGroup(r.raw) = Text41
             /\ ~Registered(SecondGroup(r.raw)))
            => /\ r.error = [kind |-> "NoConverter", bytes |-> <<>>,
                             pid |-> SecondGroup(r.raw)]
               /\ r.value = Null
               /\ calls[i] = <<>>

\* "41" alone was answered with NoConverter, after one lookup
C9_Witness ==
    /\ pc = "done"
    /\ Len(results) = 1
    /\ results[1].raw = Text41
    /\ results[1].error.kind = "NoConverter"
    /\ Len(lookups[1]) = 1

----------------------------------------------------------------------------
(* C10.  No result has both value and error; a hex command string has     *)
(* exactly one of them, a result with neither is a generic one; a failure *)
(* of the converter becomes the error, with value null, and any other     *)
(* answer of the converter the value.                                     *)
C10_ValueXorError ==
    \A i \in 1..Len(results) :
        LET r == results[i]
        IN  /\ ~(ValueSet(r) /\ ErrorSet(r))
            /\ StrictHex(r.raw) => (ValueSet(r) \/ ErrorSet(r))
            /\ (~ValueSet(r) /\ ~ErrorSet(r)) => ~StrictHex(r.raw)
            /\ calls[i] # <<>> =>
                  LET c == calls[i][1]
                      answer == convertBytes(Descriptor(c.pid), c.args, converter)
                  IN  IF answer.isVError
                      THEN r.error = answer.error /\ r.value = Null
                      ELSE r.value = answer.value /\ r.error = NoError

\* a converter failed and its failure is the error of the result
C10_Witness ==
    /\ pc = "done"
    /\ Len(results) = 1
    /\ results[1].error.kind = "ConversionFailed"
    /\ results[1].value = Null
    /\ Len(calls[1]) = 1

----------------------------------------------------------------------------
(* C11.  Errors are data.  A feed that completes a frame emits a result   *)
(* for every line of it, whatever the lines decode to, empties the buffer *)
(* and calls done(); inside a feed every line visited so far has given   *)
(* its result (no line aborts the loop) and no hex command string lacks   *)
(* the byte groups the decoder reads; and after a frame with errors the   *)
(* results of a feed are those a fresh parser gives for what was fed      *)
(* since.                                                                 *)
C11_ErrorsAreData ==
    /\ (pc = "done" /\ Delimited(Accumulated))
          => /\ Len(results) = Len(extractOutputStrings(Accumulated))
             /\ buffer = <<>>
             /\ doneCalls = 1
    /\ pc = "each"
          => /\ cmds = extractOutputStrings(Accumulated)
             /\ idx \in 1..(Len(cmds) + 1)
             /\ Len(results) = idx - 1
    /\ \A i \in 1..Len(cmds) : StrictHex(cmds[i]) => getByteGroupings(cmds[i]) # <<>>
    /\ (erred /\ pc = "done") => Views(sinceEmpty) = SingleChunkViews(Accumulated)

\* after an earlier frame with errors, a frame of two lines that both decode
\* to errors was decoded in full
C11_Witness ==
    /\ erred
    /\ pc = "done"
    /\ Len(results) = 2
    /\ ErrorSet(results[1])
    /\ ErrorSet(results[2])
    /\ buffer = <<>>
    /\ doneCalls = 1

----------------------------------------------------------------------------
(* Vocabulary of the splitter's properties.                                *)

IsBlank(c) == c \in {" ", "\t", "\n", "\r", "LS", "PS"}

\* a line as the documentation normalizes it: without its spaces and line
\* feeds, from its first to its last character that is not whitespace
Core(line) ==
    LET t == SelectSeq(line, LAMBDA c : c # " " /\ c # "\n")
        ink == {i \in 1..Len(t) : ~IsBlank(t[i])}
    IN  IF ink = {} THEN <<>>
        ELSE SubSeq(t, CHOOSE i \in ink : \A j \in ink : i <= j,
                       CHOOSE i \in ink : \A j \in ink : i >= j)

\* the normalized lines that are not empty, in their order
RECURSIVE NonEmptyCores(_)
NonEmptyCores(lines) ==
    IF lines = <<>> THEN <<>>
    ELSE (IF Core(Head(lines)) = <<>> THEN <<>> ELSE <<Core(Head(lines))>>)
            \o NonEmptyCores(Tail(lines))

----------------------------------------------------------------------------
(* C12.  The splitter, on a frame of lines separated by carriage returns   *)
(* or their backslash-r escape, in any mix, and ended by the prompt         *)
(* delimiter, yields the lines that are not empty once normalized, one     *)
(* command string each, in their order of arrival; empty and blank         *)
(* segments and the delimiter give nothing, and a line feed anywhere in    *)
(* the frame does not change the result.                                   *)
C12_SplitYieldsLinesInOrder ==
    (pc = "returned" /\ fn = "split") => out = NonEmptyCores(arg.lines)

\* a frame of two different lines separated by the escape, with a line feed
\* in it and empty segments before the prompt, gave its two command strings
C12_Witness ==
    /\ pc = "returned"
    /\ fn = "split"
    /\ Len(arg.lines) = 2
    /\ arg.seps[1] = <<"\\", "r">>
    /\ arg.lf >= 0
    /\ arg.trailer # <<>>
    /\ Len(out) = 2
    /\ out[1] # out[2]

----------------------------------------------------------------------------
(* C13.  Every command string the splitter gives, for any buffer content,  *)
(* is not empty, holds no prompt delimiter, no space, no line feed and no  *)
(* carriage return, and neither starts nor ends with whitespace.           *)
C13_CommandStringsNormalized ==
    (pc = "returned" /\ fn = "extract") =>
        \A i \in 1..Len(out) :
            /\ out[i] # <<>>
            /\ \A k \in 1..Len(out[i]) : out[i][k] \notin {">", " ", "\n", "\r"}
            /\ ~IsBlank(out[i][1])
            /\ ~IsBlank(out[i][Len(out[i])])

----------------------------------------------------------------------------
(* C14.  isHex(s) is true exactly when s is not empty and every character  *)
(* of it is one of 0-9, A-F: false for the empty string and for a string   *)
(* with a lowercase letter, a line feed or any other character anywhere.   *)
C14_IsHexIffUppercaseHex ==
    (pc = "returned" /\ fn = "isHex") =>
        /\ out = StrictHex(arg)
        /\ arg = <<>> => out = FALSE
        /\ (\E i \in 1..Len(arg) : arg[i] \in {"a", "G", "\n"}) => out = FALSE

\* hex digits followed by a lowercase letter were rejected
C14_Witness ==
    /\ pc = "returned"
    /\ fn = "isHex"
    /\ Len(arg) >= 2
    /\ StrictHex(SubSeq(arg, 1, Len(arg) - 1))
    /\ arg[Len(arg)] = "a"
    /\ out = FALSE

----------------------------------------------------------------------------
(* Vocabulary of the grouping's property.                                  *)

\* the tokens put together again, in order
RECURSIVE Concat(_)
Concat(tokens) ==
    IF tokens = <<>> THEN <<>> ELSE Head(tokens) \o Concat(Tail(tokens))

\* a character that ends a line: line feed, carriage return, line
\* separator, paragraph separator
EndsLine(c) == c \in {"\n", "\r", "LS", "PS"}

HasLineSeparator(s) == \E i \in 1..Len(s) : EndsLine(s[i])

\* the text without its line separators
WithoutLineSeparators(s) == SelectSeq(s, LAMBDA c : ~EndsLine(c))

\* the runs of the text between its line separators, in order, the empty
\* ones left out
RECURSIVE Runs(_)
Runs(s) ==
    IF s = <<>> THEN <<>>
    ELSE IF EndsLine(Head(s)) THEN Runs(Tail(s))
    ELSE LET stops == {i \in 1..Len(s) : EndsLine(s[i])}
             n == IF stops = {} THEN Len(s)
                  ELSE (CHOOSE i \in stops : \A j \in stops : i <= j) - 1
         IN  <<SubSeq(s, 1, n)>> \o Runs(From(s, n + 1))

\* the pairs of every run, run after run
RECURSIVE PairsOfRuns(_)
PairsOfRuns(runs) ==
    IF runs = <<>> THEN <<>> ELSE PairsOf(Head(runs)) \o PairsOfRuns(Tail(runs))

----------------------------------------------------------------------------
(* C15 as stated: for every command string s, the tokens of                *)
(* getByteGroupings(s), put together in order, are s; every token has two  *)
(* characters, except that the last has one exactly when the length of s   *)
(* is odd; so "1B56" gives "1B", "56" and "1B5" gives "1B", "5", and a     *)
(* string of odd length is grouped, not rejected.                          *)
C15_Original ==
    (pc = "returned" /\ fn = "group") =>
        /\ out # <<>>
        /\ Concat(out) = arg
        /\ \A j \in 1..(Len(out) - 1) : Len(out[j]) = 2
        /\ Len(out[Len(out)]) = (IF Len(arg) % 2 = 1 THEN 1 ELSE 2)
        /\ arg = <<"1", "B", "5", "6">> => out = << <<"1", "B">>, <<"5", "6">> >>
        /\ arg = <<"1", "B", "5">> => out = << <<"1", "B">>, <<"5">> >>

(* C15, amended.  For every command string s, the tokens of                *)
(* getByteGroupings(s) are the pairs of each run of s between the line     *)
(* separators U+2028 and U+2029 it holds, run after run, the last token of *)
(* a run having one character exactly when the run has odd length: the     *)
(* tokens put together are s without its line separators, every token has  *)
(* one or two characters and no line separator, and there is at least one  *)
(* token.  For an s without line separators this is the claim as stated:   *)
(* the tokens put together are s, every token has two characters except    *)
(* that the last has one exactly when the length of s is odd, as in the    *)
(* two examples.                                                           *)
C15_GroupsOfRuns ==
    (pc = "returned" /\ fn = "group") =>
        /\ out # <<>>
        /\ out = PairsOfRuns(Runs(arg))
        /\ Concat(out) = WithoutLineSeparators(arg)
        /\ \A j \in 1..Len(out) :
              /\ Len(out[j]) \in {1, 2}
              /\ ~HasLineSeparator(out[j])
        /\ ~HasLineSeparator(arg) =>
              /\ Concat(out) = arg
              /\ \A j \in 1..(Len(out) - 1) : Len(out[j]) = 2
              /\ Len(out[Len(out)]) = (IF Len(arg) % 2 = 1 THEN 1 ELSE 2)
        /\ arg = <<"1", "B", "5", "6">> => out = << <<"1", "B">>, <<"5", "6">> >>
        /\ arg = <<"1", "B", "5">> => out = << <<"1", "B">>, <<"5">> >>

\* a command string with a line separator after its first character was
\* grouped run by run: a token of one character, then a pair
C15_Witness ==
    /\ pc = "returned"
    /\ fn = "group"
    /\ arg = <<"1", "LS", "B", "5">>
    /\ out = << <<"1">>, <<"B", "5">> >>

----------------------------------------------------------------------------
(* Vocabulary of the properties of the order of a feed.                    *)

\* the feed in progress completes a frame
Completing == pc \in {"prompt", "each", "done"} /\ Delimited(Accumulated)

\* the first n elements
Prefix(s, n) == SubSeq(s, 1, n)

----------------------------------------------------------------------------
(* C16.  Within a feed that completes a frame: first the ready signal,    *)
(* then the results of the frame one by one in line order, then the       *)
(* buffer is cleared, then the feed completes.  So no result of a frame   *)
(* is emitted before its ready signal, and the buffer holds the frame     *)
(* while the signal and the results are delivered.                        *)
C16_OrderStates ==
    Completing =>
        LET lines == extractOutputStrings(Accumulated)
        IN  /\ results # <<>> => signals >= 1
            /\ Len(results) <= Len(lines)
            /\ Raws(results) = Prefix(lines, Len(results))
            /\ pc \in {"prompt", "each"} => (buffer = Accumulated /\ doneCalls = 0)
            /\ buffer = <<>> => Len(results) = Len(lines)
            /\ doneCalls >= 1 => buffer = <<>>

C16_OrderSteps ==
    (Completing /\ pc # "done") =>
        \* the ready signal comes before any result, the buffer untouched
        /\ signals' # signals =>
              (signals = 0 /\ results = <<>> /\ results' = results
                /\ buffer' = buffer)
        \* a result is the next line's, after the signal, the buffer untouched
        /\ results' # results =>
              /\ signals = 1 /\ signals' = 1
              /\ Len(results') = Len(results) + 1
              /\ Prefix(results', Len(results)) = results
              /\ buffer' = buffer
              /\ doneCalls' = 0
        \* the buffer is cleared after the last result
        /\ buffer' # buffer =>
              /\ buffer' = <<>>
              /\ signals = 1
              /\ Len(results) = Len(extractOutputStrings(Accumulated))
              /\ results' = results
        \* the feed completes with the buffer cleared
        /\ doneCalls' # doneCalls => (buffer' = <<>> /\ pc' = "done")

C16_OrderOfFeed == []C16_OrderStates /\ [][C16_OrderSteps]_vars

\* between the first and the second result of a frame of two lines: the
\* signal was emitted, the buffer holds the frame, the feed is not complete
C16_Witness ==
    /\ pc = "each"
    /\ Delimited(Accumulated)
    /\ signals = 1
    /\ Len(cmds) = 2
    /\ Len(results) = 1
    /\ buffer = Accumulated
    /\ buffer # <<>>
    /\ doneCalls = 0

----------------------------------------------------------------------------
(* C17.  A feed after which the accumulated buffer holds no prompt         *)
(* delimiter emits nothing: no ready signal, no result, no error; it       *)
(* changes the buffer only, which becomes exactly its previous content     *)
(* followed by the chunk, every character kept as it came; and so for any  *)
(* number of such feeds in a row.                                          *)
C17_SilentAccumulationStates ==
    (pc = "done" /\ ~Delimited(Accumulated)) =>
        /\ signals = 0
        /\ results = <<>>
        /\ lookups = <<>>
        /\ calls = <<>>
        /\ sinceEmpty = <<>>
        /\ buffer = pre \o chunk
        /\ doneCalls = 1

C17_SilentAccumulationSteps ==
    (pc = "idle" /\ pc' = "done") =>
        /\ ~Delimited(buffer')
        /\ \E i \in 0..Len(buffer') :
              /\ SubSeq(buffer', 1, i) = buffer
              /\ From(buffer', i + 1) = chunk'
        /\ UNCHANGED <<signals, results, lookups, calls, cmds, erred, ended,
                       converter>>

C17_SilentAccumulation ==
    []C17_SilentAccumulationStates /\ [][C17_SilentAccumulationSteps]_vars

\* a chunk with a carriage return, beginning with the r of an escape whose
\* backslash the buffer held, was added to the buffer as it came
C17_Witness ==
    /\ pc = "done"
    /\ ~Delimited(Accumulated)
    /\ pre # <<>>
    /\ pre[Len(pre)] = "\\"
    /\ chunk = <<"r", "\r">>
    /\ buffer = pre \o <<"r", "\r">>
    /\ results = <<>>
    /\ signals = 0

----------------------------------------------------------------------------
(* C18.  When the stream ends while the buffer holds a partial frame, the  *)
(* partial content is discarded: no ready signal, no result and no error   *)
(* is emitted for it, and the buffer is empty afterwards.                  *)
C18_EndDiscardsStates ==
    ended => (buffer = <<>> /\ signals = 0 /\ results = <<>> /\ calls = <<>>)

C18_EndDiscardsSteps ==
    (~ended /\ ended') =>
        /\ ~Delimited(buffer)
        /\ buffer' = <<>>
        /\ UNCHANGED <<signals, results, lookups, calls, cmds, erred>>

C18_EndDiscards == []C18_EndDiscardsStates /\ [][C18_EndDiscardsSteps]_vars

\* the stream ended with a partial frame that held a command string, and
\* nothing was emitted for it
C18_Witness ==
    /\ ended
    /\ pre # <<>>
    /\ extractOutputStrings(pre) # <<>>
    /\ buffer = <<>>
    /\ results = <<>>
    /\ signals = 0

----------------------------------------------------------------------------
(* C19.  Every feed calls done() exactly once, whether or not it completes *)
(* a frame: not before every result of the feed is emitted and, on         *)
(* completion, the buffer cleared; never twice; and a feed always gets to  *)
(* its done(), so the stream does not stall: the steps the feed still has  *)
(* to take before done() are finitely many and one fewer after each step.  *)
\* the steps between the state and the done() of the feed in progress
StepsToDone ==
    IF pc = "prompt" THEN Len(extractOutputStrings(buffer)) + 2
    ELSE IF pc = "each" THEN Len(cmds) - idx + 2
    ELSE 0

C19_DoneStates ==
    /\ pc \in {"prompt", "each"} => doneCalls = 0
    /\ pc = "done" =>
          /\ doneCalls = 1
          /\ buffer = (IF Delimited(Accumulated) THEN <<>> ELSE Accumulated)
          /\ Len(results) =
                (IF Delimited(Accumulated)
                 THEN Len(extractOutputStrings(Accumulated)) ELSE 0)

C19_DoneSteps ==
    (pc \in {"idle", "prompt", "each"} /\ ended' = ended) =>
        /\ doneCalls' \in {doneCalls, doneCalls + 1}
        /\ doneCalls' # doneCalls => (pc' = "done" /\ results' = results)
        /\ pc' = "done" => doneCalls' = 1

C19_NoStall ==
    pc \in {"prompt", "each"} =>
        /\ StepsToDone >= 1
        /\ StepsToDone' = StepsToDone - 1
        /\ (StepsToDone' = 0) <=> (pc' = "done")

C19_DoneOncePerFeed ==
    /\ []C19_DoneStates
    /\ [][C19_DoneSteps]_vars
    /\ [][C19_NoStall]_vars

\* done() called once at the end of a feed that emitted two results
C19_Witness ==
    /\ pc = "done"
    /\ Delimited(Accumulated)
    /\ Len(results) = 2
    /\ buffer = <<>>
    /\ doneCalls = 1

====
